---------------------------- MODULE Spec2Model ----------------------------
(***************************************************************************)
(* Model of extras/web_app.py: the Flask front end of onefilellm.          *)
(*                                                                         *)
(* Text is modelled as a sequence of atoms.  An atom is an indivisible     *)
(* piece of text ("http", ":", "/", "github.com", "pull", ...); a Python   *)
(* substring test is a contiguous-subsequence test on atoms, str.strip,    *)
(* str.startswith, str.isdigit, os.path.basename and urllib's urlparse     *)
(* are computed on the atom sequence the way the library computes them on  *)
(* characters.                                                             *)
(***************************************************************************)
EXTENDS Integers, Sequences, FiniteSets, TLC

VARIABLES
    pc,          \* pc[r]: the position of request r inside index()
    input_path,  \* input_path[r]: the stripped form field (line 91)
    final_output,\* final_output[r]: the text the backend returned
    crawl_urls,  \* crawl_urls[r]: crawl_result['processed_urls']
    norm_buf,    \* norm_buf[r]: the text preprocess_text has read
    counts,      \* counts[r]: token counts computed so far
    response,    \* response[r]: what index() rendered
    calls,       \* calls[r]: the backends r invoked, in order, with their argument
    safe_calls,  \* safe_calls[r]: how often r called _is_safe_url
    wrote,       \* wrote[r]: the files r created or truncated
    fs,          \* the file system: path -> [exists, data]
    flushed,     \* flushed[f]: the requests that completed a write of f, in order
    overlapped,  \* whether two requests were ever inside lines 130-134 together
    ALLOWED_DOWNLOAD_FILES,   \* the module-level allow-list (line 23)
    dl,          \* the last /download request and its answer
    safe         \* the last stand-alone evaluation of _is_safe_url

vars == <<pc, input_path, final_output, crawl_urls, norm_buf, counts, response,
          calls, safe_calls, wrote, fs, flushed, overlapped, ALLOWED_DOWNLOAD_FILES,
          dl, safe>>

---------------------------------------------------------------------------
(* Bounds of the checked input space.                                      *)

\* number of path segments appended to a generated input string
MaxSegs == 2
\* number of directory components in front of a generated download name
MaxDirs == 2

---------------------------------------------------------------------------
(* Text helpers.                                                           *)

\* a ++ b ++ ... for a sequence of sequences
RECURSIVE Flatten(_)
Flatten(ss) == IF ss = <<>> THEN <<>> ELSE Head(ss) \o Flatten(Tail(ss))

\* Python `needle in text`
Contains(text, needle) ==
    \E i \in 1..(Len(text) - Len(needle) + 1) :
        SubSeq(text, i, i + Len(needle) - 1) = needle

\* Python text.startswith(prefix)
StartsWith(text, prefix) ==
    /\ Len(text) >= Len(prefix)
    /\ SubSeq(text, 1, Len(prefix)) = prefix

\* index of the first / last occurrence of atom a in text, 0 when absent
FirstIndex(text, a) ==
    IF \E i \in 1..Len(text) : text[i] = a
    THEN CHOOSE i \in 1..Len(text) :
            text[i] = a /\ \A j \in 1..(i - 1) : text[j] # a
    ELSE 0

LastIndex(text, a) ==
    IF \E i \in 1..Len(text) : text[i] = a
    THEN CHOOSE i \in 1..Len(text) :
            text[i] = a /\ \A j \in (i + 1)..Len(text) : text[j] # a
    ELSE 0

Whitespace == {" "}
DigitAtoms == {"123"}
\* atoms made of scheme characters only (letters, digits, "+", "-", ".")
SchemeCharAtoms == {"http", "https", "ftp", "HTTP", "github.com", "example.com",
                    "localhost", "LOCALHOST", "metadata.google.internal",
                    "youtube.com", "youtu.be", "arxiv.org", "pull", "issues",
                    "10.", "0.0.1", "123", "127.0.0.1", "169.254.169.254",
                    "192.168.1.1", "172.16.0.1", "8.8.8.8", "240.0.0.1",
                    "100.64.0.1"}
\* atoms whose first character is an ASCII letter
AlphaStartAtoms == {"http", "https", "ftp", "HTTP", "github.com", "example.com",
                    "localhost", "LOCALHOST", "metadata.google.internal",
                    "youtube.com", "youtu.be", "arxiv.org", "pull", "issues"}

\* str.lower on one atom
LowerAtom(a) ==
    CASE a = "HTTP" -> "http"
      [] a = "LOCALHOST" -> "localhost"
      [] OTHER -> a

Lower(text) == [i \in 1..Len(text) |-> LowerAtom(text[i])]

\* str.strip(): drop leading and trailing whitespace
RECURSIVE LStrip(_)
LStrip(text) ==
    IF text # <<>> /\ Head(text) \in Whitespace THEN LStrip(Tail(text)) ELSE text

RECURSIVE RStrip(_)
RStrip(text) ==
    IF text # <<>> /\ text[Len(text)] \in Whitespace
    THEN RStrip(SubSeq(text, 1, Len(text) - 1))
    ELSE text

Strip(text) == RStrip(LStrip(text))

\* str.isdigit(): non-empty and every character a digit
IsDigit(text) == text # <<>> /\ \A i \in 1..Len(text) : text[i] \in DigitAtoms

---------------------------------------------------------------------------
(* urllib.parse.urlparse, as far as index() and _is_safe_url use it.       *)

NoneValue == <<"None">>

\* atoms that hold a ":"; an IPv6 literal occurs in the generated texts only
\* behind a "[", which is no scheme character
ColonAtoms == {":", "::1", "fe80::1", "2001:4860::8888"}

\* urlsplit's scheme rule: the text before the first ":" is a scheme when it
\* is non-empty, starts with a letter and holds scheme characters only
SchemeEnd(url) ==
    LET colons == {k \in 1..Len(url) : url[k] \in ColonAtoms}
        i == IF colons = {} THEN 0
             ELSE CHOOSE k \in colons : \A j \in colons : k <= j
    IN IF /\ i > 1
          /\ url[i] = ":"
          /\ url[1] \in AlphaStartAtoms
          /\ \A j \in 1..(i - 1) : url[j] \in SchemeCharAtoms
       THEN i ELSE 0

\* the netloc: after "//", up to the first "/", "?" or "#"
NetlocOf(rest) ==
    IF StartsWith(rest, <<"/", "/">>)
    THEN LET body == SubSeq(rest, 3, Len(rest))
             stops == {i \in 1..Len(body) : body[i] \in {"/", "?", "#"}}
             stop == IF stops = {} THEN Len(body) + 1
                     ELSE CHOOSE i \in stops : \A j \in stops : i <= j
         IN SubSeq(body, 1, stop - 1)
    ELSE <<>>

\* SplitResult.hostname: strip userinfo, take the bracketed part or the part
\* before the port, lower-case it; None when empty
HostnameOf(netloc) ==
    LET at == LastIndex(netloc, "@")
        hostinfo == SubSeq(netloc, at + 1, Len(netloc))
        open == FirstIndex(hostinfo, "[")
        close == FirstIndex(hostinfo, "]")
        colon == FirstIndex(hostinfo, ":")
        host == IF open > 0
                THEN SubSeq(hostinfo, open + 1,
                            IF close > 0 THEN close - 1 ELSE Len(hostinfo))
                ELSE SubSeq(hostinfo, 1,
                            IF colon > 0 THEN colon - 1 ELSE Len(hostinfo))
    IN IF host = <<>> THEN NoneValue ELSE Lower(host)

\* urlparse(url): raises ValueError("Invalid IPv6 URL") when exactly one of
\* "[" and "]" occurs in the netloc
urlparse(url) ==
    LET e == SchemeEnd(url)
        scheme == IF e > 0 THEN Lower(SubSeq(url, 1, e - 1)) ELSE <<>>
        rest == SubSeq(url, e + 1, Len(url))
        netloc == NetlocOf(rest)
        hasOpen == \E i \in 1..Len(netloc) : netloc[i] = "["
        hasClose == \E i \in 1..Len(netloc) : netloc[i] = "]"
    IN IF hasOpen # hasClose
       THEN [raised |-> TRUE, error |-> <<"Invalid IPv6 URL">>,
             scheme |-> <<>>, netloc |-> <<>>, hostname |-> NoneValue]
       ELSE [raised |-> FALSE, error |-> <<>>,
             scheme |-> scheme, netloc |-> netloc, hostname |-> HostnameOf(netloc)]

---------------------------------------------------------------------------
(* ipaddress.ip_address and the address classes _is_safe_url asks for.     *)

\* the literals the model knows how to parse: text -> groups
IPv4Literals ==
    ( <<"127.0.0.1">> :> <<127, 0, 0, 1>> ) @@
    ( <<"10.", "0.0.1">> :> <<10, 0, 0, 1>> ) @@
    ( <<"169.254.169.254">> :> <<169, 254, 169, 254>> ) @@
    ( <<"192.168.1.1">> :> <<192, 168, 1, 1>> ) @@
    ( <<"172.16.0.1">> :> <<172, 16, 0, 1>> ) @@
    ( <<"240.0.0.1">> :> <<240, 0, 0, 1>> ) @@
    ( <<"100.64.0.1">> :> <<100, 64, 0, 1>> ) @@
    ( <<"8.8.8.8">> :> <<8, 8, 8, 8>> )

IPv6Literals ==
    ( <<"::1">> :> <<0, 0, 0, 0, 0, 0, 0, 1>> ) @@
    ( <<"fe80::1">> :> <<65152, 0, 0, 0, 0, 0, 0, 1>> ) @@
    ( <<"2001:4860::8888">> :> <<8193, 18528, 0, 0, 0, 0, 0, 34952>> )

\* ip_address(text): an address, or ValueError for anything that is no literal
ip_address(text) ==
    IF text \in DOMAIN IPv4Literals
    THEN [raised |-> FALSE, version |-> 4, groups |-> IPv4Literals[text]]
    ELSE IF text \in DOMAIN IPv6Literals
    THEN [raised |-> FALSE, version |-> 6, groups |-> IPv6Literals[text]]
    ELSE [raised |-> TRUE, version |-> 0, groups |-> <<>>]

RECURSIVE Pow2(_)
Pow2(n) == IF n = 0 THEN 1 ELSE 2 * Pow2(n - 1)

\* `addr in network`: the first `prefix` bits of groups and net agree; w is
\* the width of a group (8 for IPv4, 16 for IPv6)
InNet(groups, w, net, prefix) ==
    \A k \in 1..Len(groups) :
        LET bits == IF prefix >= k * w THEN w
                    ELSE IF prefix <= (k - 1) * w THEN 0
                    ELSE prefix - (k - 1) * w
        IN groups[k] \div Pow2(w - bits) = net[k] \div Pow2(w - bits)

\* ipaddress._IPv4Constants._private_networks
PrivateNetworks4 ==
    { <<<<0, 0, 0, 0>>, 8>>, <<<<10, 0, 0, 0>>, 8>>, <<<<127, 0, 0, 0>>, 8>>,
      <<<<169, 254, 0, 0>>, 16>>, <<<<172, 16, 0, 0>>, 12>>,
      <<<<192, 0, 0, 0>>, 29>>, <<<<192, 0, 0, 170>>, 31>>,
      <<<<192, 0, 2, 0>>, 24>>, <<<<192, 168, 0, 0>>, 16>>,
      <<<<198, 18, 0, 0>>, 15>>, <<<<198, 51, 100, 0>>, 24>>,
      <<<<203, 0, 113, 0>>, 24>>, <<<<240, 0, 0, 0>>, 4>>,
      <<<<255, 255, 255, 255>>, 32>> }

\* ipaddress._IPv6Constants._private_networks
PrivateNetworks6 ==
    { <<<<0, 0, 0, 0, 0, 0, 0, 1>>, 128>>, <<<<0, 0, 0, 0, 0, 0, 0, 0>>, 128>>,
      <<<<0, 0, 0, 0, 0, 65535, 0, 0>>, 96>>, <<<<256, 0, 0, 0, 0, 0, 0, 0>>, 64>>,
      <<<<8193, 0, 0, 0, 0, 0, 0, 0>>, 23>>, <<<<8193, 3512, 0, 0, 0, 0, 0, 0>>, 32>>,
      <<<<8193, 16, 0, 0, 0, 0, 0, 0>>, 28>>, <<<<64512, 0, 0, 0, 0, 0, 0, 0>>, 7>>,
      <<<<65152, 0, 0, 0, 0, 0, 0, 0>>, 10>> }

\* ipaddress._IPv6Constants._reserved_networks (first groups and prefixes)
ReservedNetworks6 ==
    { <<0, 8>>, <<256, 8>>, <<512, 7>>, <<1024, 6>>, <<2048, 5>>, <<4096, 4>>,
      <<16384, 3>>, <<24576, 3>>, <<32768, 3>>, <<40960, 3>>, <<49152, 3>>,
      <<57344, 4>>, <<61440, 5>>, <<63488, 6>>, <<65024, 9>> }

Zero7 == <<0, 0, 0, 0, 0, 0, 0>>

is_private(addr) ==
    IF addr.version = 4
    THEN \E n \in PrivateNetworks4 : InNet(addr.groups, 8, n[1], n[2])
    ELSE \E n \in PrivateNetworks6 : InNet(addr.groups, 16, n[1], n[2])

is_loopback(addr) ==
    IF addr.version = 4
    THEN InNet(addr.groups, 8, <<127, 0, 0, 0>>, 8)
    ELSE addr.groups = <<0, 0, 0, 0, 0, 0, 0, 1>>

is_link_local(addr) ==
    IF addr.version = 4
    THEN InNet(addr.groups, 8, <<169, 254, 0, 0>>, 16)
    ELSE InNet(addr.groups, 16, <<65152>> \o Zero7, 10)

is_reserved(addr) ==
    IF addr.version = 4
    THEN InNet(addr.groups, 8, <<240, 0, 0, 0>>, 4)
    ELSE \E n \in ReservedNetworks6 : InNet(addr.groups, 16, <<n[1]>> \o Zero7, n[2])


---------------------------------------------------------------------------
(* _is_safe_url (lines 67-85).  The result records whether the call raised *)
(* and, when it did not, the Boolean it returned.                          *)

\* the function ends by a return on every path: lines 84-85 catch whatever
\* lines 70-83 raise
Returned(b) == [raised |-> FALSE, value |-> b]

DeniedHostnames == {<<"localhost">>, <<"metadata.google.internal">>}

\* lines 77-82: the address test; a hostname that is no literal passes it
\* variant: only the loopback test is made
AddressDenied_loopback_only(hostname) ==
    LET addr == ip_address(hostname)
    IN ~addr.raised /\ is_loopback(addr)

AddressDenied(hostname) ==
    LET addr == ip_address(hostname)
    IN /\ ~addr.raised
       /\ \/ is_private(addr)
          \/ is_loopback(addr)
          \/ is_link_local(addr)
          \/ is_reserved(addr)

_is_safe_url(url) ==
    LET parsed == urlparse(url)
    IN IF parsed.raised THEN Returned(FALSE)                 \* lines 84-85
       ELSE IF parsed.hostname = NoneValue THEN Returned(FALSE)   \* 72-73
       ELSE IF parsed.hostname \in DeniedHostnames THEN Returned(FALSE) \* 75-76
       ELSE IF AddressDenied(parsed.hostname) THEN Returned(FALSE)     \* 77-80
       ELSE Returned(TRUE)                                             \* 83

---------------------------------------------------------------------------
(* The input strings the checks range over: scheme, "//", host and up to   *)
(* MaxSegs path segments, each part optional.                              *)

Schemes == {<<>>, <<"http", ":">>, <<"https", ":">>, <<"ftp", ":">>}
Slashes == {<<>>, <<"/", "/">>}
Hosts == {<<>>, <<"github.com">>, <<"example.com">>, <<"localhost">>,
          <<"LOCALHOST">>, <<"metadata.google.internal">>, <<"127.0.0.1">>,
          <<"10.", "0.0.1">>, <<"169.254.169.254">>, <<"192.168.1.1">>,
          <<"172.16.0.1">>, <<"240.0.0.1">>, <<"100.64.0.1">>, <<"8.8.8.8">>,
          <<"[", "::1", "]">>, <<"[", "fe80::1", "]">>,
          <<"[", "2001:4860::8888", "]">>, <<"[", "::1">>,
          <<"youtube.com">>, <<"arxiv.org">>, <<"123">>, <<"10.", "123">>}
PathSegs == {<<"/", "pull", "/">>, <<"/", "issues", "/">>, <<"/", "github.com">>,
             <<"/", "youtu.be">>, <<"/", "123">>}

RECURSIVE PathsUpTo(_)
PathsUpTo(n) ==
    IF n = 0 THEN {<<>>}
    ELSE LET shorter == PathsUpTo(n - 1)
         IN shorter \cup {p \o s : p \in shorter, s \in PathSegs}

Paths == PathsUpTo(MaxSegs)

Inputs == {Flatten(<<sc, sl, h, p>>) :
              sc \in Schemes, sl \in Slashes, h \in Hosts, p \in Paths}

\* the form field as typed: possibly with blanks around it
RawInputs == Inputs \cup {<<" ">> \o i \o <<" ">> : i \in Inputs}

---------------------------------------------------------------------------
(* The file system.  A path is resolved to its sequence of components; a   *)
(* component is the text between two "/".                                  *)

OUTPUT_DIR == <<"/", "app">>                          \* line 20, abspath(".")

output_file == <<"uncompressed_output.txt">>          \* line 94
processed_file == <<"compressed_output.txt">>         \* line 95
urls_list_file == <<"processed_urls.txt">>            \* line 96

\* variant: the directory part is not stripped
basename_unstripped(path) == path

\* os.path.basename: the text after the last "/"
basename(path) == SubSeq(path, LastIndex(path, "/") + 1, Len(path))

\* os.path.join(a, b)
join(a, b) ==
    IF b # <<>> /\ b[1] = "/" THEN b
    ELSE IF a = <<>> \/ a[Len(a)] = "/" THEN a \o b
    ELSE a \o <<"/">> \o b

\* the components of a path, resolved as the kernel resolves an absolute
\* path: "" and "." are skipped, ".." steps to the parent
RECURSIVE Resolve(_, _, _)
Resolve(path, comp, acc) ==
    LET push == IF comp = <<>> \/ comp = <<".">> THEN acc
                ELSE IF comp = <<"..">>
                THEN (IF acc = <<>> THEN acc ELSE SubSeq(acc, 1, Len(acc) - 1))
                ELSE Append(acc, comp)
    IN IF path = <<>> THEN push
       ELSE IF Head(path) = "/" THEN Resolve(Tail(path), <<>>, push)
       ELSE Resolve(Tail(path), Append(comp, Head(path)), acc)

\* the file a path names, seen from the working directory OUTPUT_DIR
FileOf(path) == Resolve(join(OUTPUT_DIR, path), <<>>, <<>>)

OutU == FileOf(output_file)
OutC == FileOf(processed_file)
OutUrls == FileOf(urls_list_file)
Secret == <<<<"app">>, <<"secret.txt">>>>
SubU == <<<<"app">>, <<"sub">>, <<"uncompressed_output.txt">>>>
Passwd == <<<<"etc">>, <<"passwd">>>>

FsPaths == {OutU, OutC, OutUrls, Secret, SubU, Passwd}
Artifacts == {OutU, OutC, OutUrls}

Absent == [exists |-> FALSE, data |-> <<>>]
Present(d) == [exists |-> TRUE, data |-> d]

\* os.path.isfile
isfile(path) ==
    LET f == FileOf(path) IN f \in FsPaths /\ fs[f].exists

\* open(f, "w"): create or truncate
Truncated(f) == [fs EXCEPT ![f] = Present(<<>>)]

\* the write(2) that close() issues at offset 0 of the descriptor
Overlay(old, data) == data \o SubSeq(old, Len(data) + 1, Len(old))
Written(f, data) == [fs EXCEPT ![f] = Present(Overlay(fs[f].data, data))]


---------------------------------------------------------------------------
(* The collaborators imported from onefilellm (lines 9-11).                *)

\* the texts a backend may return
Contents == {<<"A">>, <<"B", "B">>}
\* the message of the exception a failing backend raises
BackendErrors == {<<"backend failed">>}
ClipboardError == <<"no clipboard">>

\* preprocess_text's transformation of the text it read
NormalizeAtom(a) ==
    CASE a = "A" -> "a"
      [] a = "B" -> "b"
      [] OTHER -> a
Normalize(text) == [i \in 1..Len(text) |-> NormalizeAtom(text[i])]

\* get_token_count
get_token_count(text) == Len(text)

\* '\n'.join(urls), line 122
RECURSIVE JoinLines(_)
JoinLines(urls) ==
    IF urls = <<>> THEN <<>>
    ELSE IF Len(urls) = 1 THEN Head(urls)
    ELSE Head(urls) \o <<"\n">> \o JoinLines(Tail(urls))

---------------------------------------------------------------------------
(* index(), POST (lines 90-150).                                           *)

Requests == {"r1", "r2"}

SecurityMessage == <<"Error: URL rejected by security policy.">>
LocalPathMessage ==
    <<"Error: Local path processing is not allowed via the web interface.">>

NoResponse == [sent |-> FALSE, output |-> <<>>, token_counts |-> <<>>]
\* render_template_string(template, output=...)
MessagePage(text) == [sent |-> TRUE, output |-> text, token_counts |-> <<>>]
\* line 150: f"Error: {str(e)}"
ErrorPage(e) == MessagePage(<<"Error: ">> \o e)
\* lines 145-148
ResultPage(out, u, c) == [sent |-> TRUE, output |-> out, token_counts |-> <<u, c>>]

\* variant: the chain without the bibliographic rule of line 123
Branch_without_doi(text) ==
    IF Contains(text, <<"github.com">>) THEN "github"
    ELSE IF urlparse(text).scheme \in {<<"http">>, <<"https">>} THEN "web"
    ELSE "reject"

\* the if/elif chain of lines 102, 111, 123, 125
Branch(text) ==
    IF Contains(text, <<"github.com">>) THEN "github"
    ELSE IF urlparse(text).scheme \in {<<"http">>, <<"https">>} THEN "web"
    ELSE IF \/ (StartsWith(text, <<"10.">>) /\ Contains(text, <<"/">>))
            \/ IsDigit(text)
         THEN "doi"
    ELSE "reject"

\* variant: the issue test of line 107 made before the pull test of line 105
BackendFor_issue_first(text) ==
    CASE Branch(text) = "github" ->
            IF Contains(text, <<"/", "issues", "/">>)
            THEN "process_github_issue"
            ELSE IF Contains(text, <<"/", "pull", "/">>)
            THEN "process_github_pull_request"
            ELSE "process_github_repo"
      [] Branch(text) = "web" ->
            IF Contains(text, <<"youtube.com">>) \/ Contains(text, <<"youtu.be">>)
            THEN "fetch_youtube_transcript"
            ELSE IF Contains(text, <<"arxiv.org">>)
            THEN "process_arxiv_pdf"
            ELSE "crawl_and_extract_text"
      [] Branch(text) = "doi" -> "process_doi_or_pmid"
      [] OTHER -> "none"

\* the backend each branch calls (lines 105-110, 114-119, 124)
BackendFor(text) ==
    CASE Branch(text) = "github" ->
            IF Contains(text, <<"/", "pull", "/">>)
            THEN "process_github_pull_request"
            ELSE IF Contains(text, <<"/", "issues", "/">>)
            THEN "process_github_issue"
            ELSE "process_github_repo"
      [] Branch(text) = "web" ->
            IF Contains(text, <<"youtube.com">>) \/ Contains(text, <<"youtu.be">>)
            THEN "fetch_youtube_transcript"
            ELSE IF Contains(text, <<"arxiv.org">>)
            THEN "process_arxiv_pdf"
            ELSE "crawl_and_extract_text"
      [] Branch(text) = "doi" -> "process_doi_or_pmid"
      [] OTHER -> "none"

\* one invocation of a backend: which, with what argument, and whether it returned
Call(b, arg, ok) == [backend |-> b, arg |-> arg, returned |-> ok]

\* the part of index() in which a request holds the artifact files open or
\* half-written: after line 130 and before preprocess_text has written
WriteSection == {"write_output", "preprocess_read", "preprocess_write"}

Done(r, page) ==
    /\ response' = [response EXCEPT ![r] = page]
    /\ pc' = [pc EXCEPT ![r] = "done"]

Goto(r, label) ==
    /\ pc' = [pc EXCEPT ![r] = label]
    /\ UNCHANGED response

\* lines 91-100: read the form field, parse it; a ValueError from urlparse
\* is caught at line 149
Submit(r, raw) ==
    /\ pc[r] = "idle"
    /\ input_path' = [input_path EXCEPT ![r] = Strip(raw)]
    /\ LET parsed == urlparse(Strip(raw))
       IN IF parsed.raised
          THEN Done(r, ErrorPage(parsed.error))
          ELSE Goto(r, "classify")
    /\ UNCHANGED <<final_output, crawl_urls, norm_buf, counts, calls, safe_calls,
                   wrote, fs, flushed, overlapped, ALLOWED_DOWNLOAD_FILES, dl, safe>>

\* lines 102, 111, 123, 125-127: choose the branch
Classify(r) ==
    /\ pc[r] = "classify"
    /\ CASE Branch(input_path[r]) \in {"github", "web"} -> Goto(r, "safety")
         [] Branch(input_path[r]) = "doi" -> Goto(r, "call")
         [] OTHER -> Done(r, MessagePage(LocalPathMessage))
    /\ UNCHANGED <<input_path, final_output, crawl_urls, norm_buf, counts, calls,
                   safe_calls, wrote, fs, flushed, overlapped, ALLOWED_DOWNLOAD_FILES, dl, safe>>

\* variant: the verdict of _is_safe_url is computed and not acted on
SafetyCheck_unenforced(r) ==
    /\ pc[r] = "safety"
    /\ safe_calls' = [safe_calls EXCEPT ![r] = @ + 1]
    /\ Goto(r, "call")
    /\ UNCHANGED <<input_path, final_output, crawl_urls, norm_buf, counts, calls,
                   wrote, fs, flushed, overlapped, ALLOWED_DOWNLOAD_FILES, dl, safe>>

\* lines 103-104 and 112-113
SafetyCheck(r) ==
    /\ pc[r] = "safety"
    /\ safe_calls' = [safe_calls EXCEPT ![r] = @ + 1]
    /\ LET verdict == _is_safe_url(input_path[r])
       IN IF verdict.raised THEN Done(r, ErrorPage(<<"exception">>))
          ELSE IF ~verdict.value THEN Done(r, MessagePage(SecurityMessage))
          ELSE Goto(r, "call")
    /\ UNCHANGED <<input_path, final_output, crawl_urls, norm_buf, counts, calls,
                   wrote, fs, flushed, overlapped, ALLOWED_DOWNLOAD_FILES, dl, safe>>

\* variant: a failed backend call is made again
CallBackend_retry(r) ==
    /\ pc[r] = "call"
    /\ LET b == BackendFor(input_path[r])
       IN /\ \/ \E text \in Contents :
                   /\ calls' = [calls EXCEPT ![r] = Append(@, Call(b, input_path[r], TRUE))]
                   /\ final_output' = [final_output EXCEPT ![r] = text]
                   /\ crawl_urls' = [crawl_urls EXCEPT ![r] =
                          IF b = "crawl_and_extract_text"
                          THEN <<input_path[r]>> ELSE <<>>]
                   /\ Goto(r, IF b = "crawl_and_extract_text"
                              THEN "write_urls" ELSE "open_output")
             \/ \E e \in BackendErrors :
                   /\ calls' = [calls EXCEPT ![r] = Append(@, Call(b, input_path[r], FALSE))]
                   /\ IF Len(calls[r]) = 0 THEN Goto(r, "call") ELSE Done(r, ErrorPage(e))
                   /\ UNCHANGED <<final_output, crawl_urls>>
    /\ UNCHANGED <<input_path, norm_buf, counts, safe_calls, wrote, fs, flushed,
                   overlapped, ALLOWED_DOWNLOAD_FILES, dl, safe>>

\* lines 106-120, 124: the one backend call; it returns a text (the crawler
\* also the URLs it visited) or raises, which line 149 catches
CallBackend(r) ==
    /\ pc[r] = "call"
    /\ LET b == BackendFor(input_path[r])
       IN /\ \/ \E text \in Contents :
                   /\ calls' = [calls EXCEPT ![r] = Append(@, Call(b, input_path[r], TRUE))]
                   /\ final_output' = [final_output EXCEPT ![r] = text]
                   /\ crawl_urls' = [crawl_urls EXCEPT ![r] =
                          IF b = "crawl_and_extract_text"
                          THEN <<input_path[r]>> ELSE <<>>]
                   /\ Goto(r, IF b = "crawl_and_extract_text"
                              THEN "write_urls" ELSE "open_output")
             \/ \E e \in BackendErrors :
                   /\ calls' = [calls EXCEPT ![r] = Append(@, Call(b, input_path[r], FALSE))]
                   /\ Done(r, ErrorPage(e))
                   /\ UNCHANGED <<final_output, crawl_urls>>
    /\ UNCHANGED <<input_path, norm_buf, counts, safe_calls, wrote, fs, flushed,
                   overlapped, ALLOWED_DOWNLOAD_FILES, dl, safe>>

\* lines 121-122: the crawl's sidecar file, its open and write in one step
WriteUrls(r) ==
    /\ pc[r] = "write_urls"
    /\ fs' = [fs EXCEPT ![OutUrls] = Present(JoinLines(crawl_urls[r]))]
    /\ wrote' = [wrote EXCEPT ![r] = @ \cup {OutUrls}]
    /\ flushed' = [flushed EXCEPT ![OutUrls] = Append(@, r)]
    /\ Goto(r, "open_output")
    /\ UNCHANGED <<input_path, final_output, crawl_urls, norm_buf, counts, calls,
                   safe_calls, overlapped, ALLOWED_DOWNLOAD_FILES, dl, safe>>

\* variant: the file is opened without being truncated
OpenOutput_no_truncate(r) ==
    /\ pc[r] = "open_output"
    /\ fs' = [fs EXCEPT ![OutU] = Present(@.data)]
    /\ wrote' = [wrote EXCEPT ![r] = @ \cup {OutU}]
    /\ overlapped' = (overlapped \/ \E o \in Requests \ {r} : pc[o] \in WriteSection)
    /\ Goto(r, "write_output")
    /\ UNCHANGED <<input_path, final_output, crawl_urls, norm_buf, counts, calls,
                   safe_calls, flushed, ALLOWED_DOWNLOAD_FILES, dl, safe>>

\* line 130: open(output_file, "w") creates or truncates the file
OpenOutput(r) ==
    /\ pc[r] = "open_output"
    /\ fs' = Truncated(OutU)
    /\ wrote' = [wrote EXCEPT ![r] = @ \cup {OutU}]
    /\ overlapped' = (overlapped \/ \E o \in Requests \ {r} : pc[o] \in WriteSection)
    /\ Goto(r, "write_output")
    /\ UNCHANGED <<input_path, final_output, crawl_urls, norm_buf, counts, calls,
                   safe_calls, flushed, ALLOWED_DOWNLOAD_FILES, dl, safe>>

\* line 131 and the end of the with block: the text reaches the file
WriteOutput(r) ==
    /\ pc[r] = "write_output"
    /\ fs' = Written(OutU, final_output[r])
    /\ flushed' = [flushed EXCEPT ![OutU] = Append(@, r)]
    /\ Goto(r, "preprocess_read")
    /\ UNCHANGED <<input_path, final_output, crawl_urls, norm_buf, counts, calls,
                   safe_calls, wrote, overlapped, ALLOWED_DOWNLOAD_FILES, dl, safe>>

\* line 134, first half: preprocess_text reads the uncompressed file
PreprocessRead(r) ==
    /\ pc[r] = "preprocess_read"
    /\ norm_buf' = [norm_buf EXCEPT ![r] = fs[OutU].data]
    /\ Goto(r, "preprocess_write")
    /\ UNCHANGED <<input_path, final_output, crawl_urls, counts, calls, safe_calls,
                   wrote, fs, flushed, overlapped, ALLOWED_DOWNLOAD_FILES, dl, safe>>

\* line 134, second half: preprocess_text writes the compressed file
PreprocessWrite(r) ==
    /\ pc[r] = "preprocess_write"
    /\ fs' = [fs EXCEPT ![OutC] = Present(Normalize(norm_buf[r]))]
    /\ wrote' = [wrote EXCEPT ![r] = @ \cup {OutC}]
    /\ flushed' = [flushed EXCEPT ![OutC] = Append(@, r)]
    /\ Goto(r, "read_compressed")
    /\ UNCHANGED <<input_path, final_output, crawl_urls, norm_buf, counts, calls,
                   safe_calls, overlapped, ALLOWED_DOWNLOAD_FILES, dl, safe>>

\* lines 136-137
ReadCompressed(r) ==
    /\ pc[r] = "read_compressed"
    /\ counts' = [counts EXCEPT ![r] =
                     [@ EXCEPT !.compressed = get_token_count(fs[OutC].data)]]
    /\ Goto(r, "read_uncompressed")
    /\ UNCHANGED <<input_path, final_output, crawl_urls, norm_buf, calls, safe_calls,
                   wrote, fs, flushed, overlapped, ALLOWED_DOWNLOAD_FILES, dl, safe>>

\* lines 139-140
ReadUncompressed(r) ==
    /\ pc[r] = "read_uncompressed"
    /\ counts' = [counts EXCEPT ![r] =
                     [@ EXCEPT !.uncompressed = get_token_count(fs[OutU].data)]]
    /\ Goto(r, "respond")
    /\ UNCHANGED <<input_path, final_output, crawl_urls, norm_buf, calls, safe_calls,
                   wrote, fs, flushed, overlapped, ALLOWED_DOWNLOAD_FILES, dl, safe>>

\* lines 143-148: copy to the clipboard (which raises on a host without
\* one) and render the result
Respond(r) ==
    /\ pc[r] = "respond"
    /\ \/ Done(r, ResultPage(final_output[r], counts[r].uncompressed,
                             counts[r].compressed))
       \/ Done(r, ErrorPage(ClipboardError))
    /\ UNCHANGED <<input_path, final_output, crawl_urls, norm_buf, counts, calls,
                   safe_calls, wrote, fs, flushed, overlapped, ALLOWED_DOWNLOAD_FILES, dl, safe>>

NoCounts == [uncompressed |-> 0, compressed |-> 0]

\* the response has been sent; the worker takes the next request
Finish(r) ==
    /\ pc[r] = "done"
    /\ pc' = [pc EXCEPT ![r] = "idle"]
    /\ input_path' = [input_path EXCEPT ![r] = <<>>]
    /\ final_output' = [final_output EXCEPT ![r] = <<>>]
    /\ crawl_urls' = [crawl_urls EXCEPT ![r] = <<>>]
    /\ norm_buf' = [norm_buf EXCEPT ![r] = <<>>]
    /\ counts' = [counts EXCEPT ![r] = NoCounts]
    /\ response' = [response EXCEPT ![r] = NoResponse]
    /\ calls' = [calls EXCEPT ![r] = <<>>]
    /\ safe_calls' = [safe_calls EXCEPT ![r] = 0]
    /\ wrote' = [wrote EXCEPT ![r] = {}]
    /\ flushed' = [f \in Artifacts |-> SelectSeq(flushed[f], LAMBDA x : x # r)]
    /\ overlapped' = (overlapped /\ \E o \in Requests \ {r} : pc[o] # "idle")
    /\ UNCHANGED <<fs, ALLOWED_DOWNLOAD_FILES, dl, safe>>


---------------------------------------------------------------------------
(* download() (lines 155-170).                                             *)

\* the names a caller may ask for: up to MaxDirs directory parts, then a
\* last component (possibly empty)
DirParts == {<<"..", "/">>, <<"sub", "/">>, <<"etc", "/">>, <<"/">>}
LastParts == {<<>>, output_file, processed_file, urls_list_file,
              <<"secret.txt">>, <<"passwd">>}

RECURSIVE DirsUpTo(_)
DirsUpTo(n) ==
    IF n = 0 THEN {<<>>}
    ELSE LET shorter == DirsUpTo(n - 1)
         IN shorter \cup {d \o p : d \in shorter, p \in DirParts}

Filenames == {d \o b : d \in DirsUpTo(MaxDirs), b \in LastParts}

NoDownload == [asked |-> FALSE, missing |-> FALSE, filename |-> <<>>,
               status |-> 0, body |-> <<>>, accessed |-> <<>>]
\* abort(status) / send_file: the answer, with the files the handler touched
Answer(missing, filename, status, body, accessed) ==
    [asked |-> TRUE, missing |-> missing, filename |-> filename,
     status |-> status, body |-> body, accessed |-> accessed]

\* variant: the crawl's sidecar file is let through as well
Forbidden_sidecar_allowed(filename) ==
    basename(filename) \notin (ALLOWED_DOWNLOAD_FILES \cup {urls_list_file})

\* lines 162-164: the allow-list test
Forbidden(filename) == basename(filename) \notin ALLOWED_DOWNLOAD_FILES

\* variant: the path is built from the name as the caller gave it
safe_path_unsanitized(filename) == join(OUTPUT_DIR, filename)

\* line 166
safe_path(filename) == join(OUTPUT_DIR, basename(filename))

\* missing: the request carries no filename argument (request.args.get
\* returns None)
Download(missing, filename) ==
    /\ ~dl.asked
    /\ dl' =
         IF missing \/ filename = <<>>                          \* lines 158-159
         THEN Answer(missing, filename, 404, <<>>, <<>>)
         ELSE IF Forbidden(filename)                            \* lines 163-164
         THEN Answer(missing, filename, 403, <<>>, <<>>)
         ELSE LET f == FileOf(safe_path(filename))
              IN IF ~isfile(safe_path(filename))                \* lines 167-168
                 THEN Answer(missing, filename, 404, <<>>, <<f>>)
                 ELSE Answer(missing, filename, 200, fs[f].data, <<f, f>>) \* 170
    /\ UNCHANGED <<pc, input_path, final_output, crawl_urls, norm_buf, counts,
                   response, calls, safe_calls, wrote, fs, flushed, overlapped,
                   ALLOWED_DOWNLOAD_FILES, safe>>

\* the answer has been sent; the next /download request may arrive
Deliver ==
    /\ dl.asked
    /\ dl' = NoDownload
    /\ UNCHANGED <<pc, input_path, final_output, crawl_urls, norm_buf, counts,
                   response, calls, safe_calls, wrote, fs, flushed, overlapped,
                   ALLOWED_DOWNLOAD_FILES, safe>>

---------------------------------------------------------------------------
(* A stand-alone evaluation of _is_safe_url on a URL built from its parts. *)

NoCheck == [checked |-> FALSE, scheme |-> <<>>, slashes |-> <<>>, host |-> <<>>,
            path |-> <<>>, url |-> <<>>, result |-> Returned(FALSE)]

CheckUrl(sc, sl, h, p) ==
    /\ ~safe.checked
    /\ safe' = [checked |-> TRUE, scheme |-> sc, slashes |-> sl, host |-> h,
                path |-> p, url |-> Flatten(<<sc, sl, h, p>>),
                result |-> _is_safe_url(Flatten(<<sc, sl, h, p>>))]
    /\ UNCHANGED <<pc, input_path, final_output, crawl_urls, norm_buf, counts,
                   response, calls, safe_calls, wrote, fs, flushed, overlapped,
                   ALLOWED_DOWNLOAD_FILES, dl>>

---------------------------------------------------------------------------
(* Specifications.                                                         *)

Init ==
    /\ pc = [r \in Requests |-> "idle"]
    /\ input_path = [r \in Requests |-> <<>>]
    /\ final_output = [r \in Requests |-> <<>>]
    /\ crawl_urls = [r \in Requests |-> <<>>]
    /\ norm_buf = [r \in Requests |-> <<>>]
    /\ counts = [r \in Requests |-> NoCounts]
    /\ response = [r \in Requests |-> NoResponse]
    /\ calls = [r \in Requests |-> <<>>]
    /\ safe_calls = [r \in Requests |-> 0]
    /\ wrote = [r \in Requests |-> {}]
    /\ fs = [f \in FsPaths |->
                IF f \in Artifacts THEN Absent
                ELSE IF f = Passwd THEN Present(<<"root">>)
                ELSE IF f = Secret THEN Present(<<"key">>)
                ELSE Present(<<"other">>)]
    /\ flushed = [f \in Artifacts |-> <<>>]
    /\ overlapped = FALSE
    /\ ALLOWED_DOWNLOAD_FILES = {output_file, processed_file}
    /\ dl = NoDownload
    /\ safe = NoCheck

\* the steps of one request after it was received
Step(r) ==
    \/ Classify(r)
    \/ SafetyCheck(r)
    \/ CallBackend(r)
    \/ WriteUrls(r)
    \/ OpenOutput(r)
    \/ WriteOutput(r)
    \/ PreprocessRead(r)
    \/ PreprocessWrite(r)
    \/ ReadCompressed(r)
    \/ ReadUncompressed(r)
    \/ Respond(r)

\* one request, any input string
NextSubmit ==
    \/ pc["r1"] = "idle" /\ \E raw \in RawInputs : Submit("r1", raw)
    \/ Step("r1")

SpecSubmit == Init /\ [][NextSubmit]_vars

\* two requests handled by two threads of the server at once
RaceInputs == {<<"https", ":", "/", "/", "github.com", "/", "pull", "/">>,
               <<"http", ":", "/", "/", "example.com">>}

NextRace ==
    \/ \E r \in Requests, raw \in RaceInputs : Submit(r, raw)
    \/ \E r \in Requests : Step(r)

SpecRace == Init /\ [][NextRace]_vars

\* submit requests one after the other, downloads at any moment
DownloadInputs == {<<"http", ":", "/", "/", "example.com", " ">>,
                   <<"/", "etc", "/", "passwd">>}

NextDownload ==
    \/ \E raw \in DownloadInputs : Submit("r1", raw)
    \/ Step("r1")
    \/ Finish("r1")
    \/ /\ ~dl.asked
       /\ \E missing \in BOOLEAN, filename \in Filenames :
             (missing => filename = <<>>) /\ Download(missing, filename)
    \/ Deliver

SpecDownload == Init /\ [][NextDownload]_vars

\* the safety checker alone, on every generated URL
NextSafe ==
    /\ ~safe.checked
    /\ \E sc \in Schemes, sl \in Slashes, h \in Hosts, p \in Paths :
          CheckUrl(sc, sl, h, p)

SpecSafe == Init /\ [][NextSafe]_vars


---------------------------------------------------------------------------
(* Properties of index().                                                  *)

AfterCall == {"write_urls", "open_output", "write_output", "preprocess_read",
              "preprocess_write", "read_compressed", "read_uncompressed",
              "respond", "done"}

\* r went through the safety check and the check said no
SafetyRefused(r) ==
    /\ safe_calls[r] > 0
    /\ pc[r] = "done"
    /\ ~_is_safe_url(input_path[r]).value

\* r went through the if/elif chain and ended in its else branch
ClassifiedRejected(r) ==
    /\ pc[r] = "done"
    /\ ~urlparse(input_path[r]).raised
    /\ ~Contains(input_path[r], <<"github.com">>)
    /\ urlparse(input_path[r]).scheme \notin {<<"http">>, <<"https">>}
    /\ ~(StartsWith(input_path[r], <<"10.">>) /\ Contains(input_path[r], <<"/">>))
    /\ ~IsDigit(input_path[r])

\* C1: a request refused before dispatch (the safety check said not-safe, or
\* the input was classified as Rejected) has invoked no backend and has
\* created or overwritten none of the three files, which therefore do not
\* exist; it answers with the security-rejection message, respectively the
\* local-path rejection message.
C1_RefusedRequestDoesNothing ==
    \A r \in Requests :
        /\ SafetyRefused(r) =>
              /\ calls[r] = <<>>
              /\ wrote[r] = {}
              /\ \A f \in Artifacts : ~fs[f].exists
              /\ response[r] = MessagePage(SecurityMessage)
        /\ ClassifiedRejected(r) =>
              /\ calls[r] = <<>>
              /\ wrote[r] = {}
              /\ safe_calls[r] = 0
              /\ \A f \in Artifacts : ~fs[f].exists
              /\ response[r] = MessagePage(LocalPathMessage)

\* the metadata address of the spec's end-to-end scenario was refused
C1_Witness ==
    /\ SafetyRefused("r1")
    /\ input_path["r1"] = <<"http", ":", "/", "/", "169.254.169.254", "/", "123">>
    /\ response["r1"].sent

\* the backend the spec's rule 1 names for a text holding "github.com"
RepositoryBackend(text) ==
    IF Contains(text, <<"/", "pull", "/">>) THEN "process_github_pull_request"
    ELSE IF Contains(text, <<"/", "issues", "/">>) THEN "process_github_issue"
    ELSE "process_github_repo"

\* C6: for an input holding "github.com", anywhere and under any scheme, a
\* backend the request invokes is the pull-request backend when the input
\* holds "/pull/", else the issue backend when it holds "/issues/", else the
\* repository backend; no other backend is invoked for it, and a request
\* that got past the safety check has invoked that backend.
C6_RepositoryRulePrecedence ==
    \A r \in Requests :
        Contains(input_path[r], <<"github.com">>) =>
            /\ \A i \in 1..Len(calls[r]) :
                  calls[r][i].backend = RepositoryBackend(input_path[r])
            /\ (pc[r] \in AfterCall /\ response[r] # MessagePage(SecurityMessage)
                   /\ ~urlparse(input_path[r]).raised)
                  => Len(calls[r]) = 1

\* an input with both segments, under a scheme of the web rule, was dispatched
C6_Witness ==
    /\ input_path["r1"] =
          <<"http", ":", "/", "/", "github.com", "/", "issues", "/", "/", "pull", "/">>
    /\ Len(calls["r1"]) = 1
    /\ calls["r1"][1].backend = "process_github_pull_request"

\* the text starts with "http:" or "https:"
WrittenAsWebUrl(text) ==
    \/ StartsWith(text, <<"http", ":">>)
    \/ StartsWith(text, <<"https", ":">>)

\* C7: every request ends with a response, and an input that matches none of
\* the repository, HTTP/HTTPS-URL or bibliographic rules, including one on
\* which URL parsing fails, ends with the local-path rejection message.
C7_UnmatchedInputIsRejected ==
    \A r \in Requests :
        (/\ pc[r] = "done"
         /\ ~Contains(input_path[r], <<"github.com">>)
         /\ ~WrittenAsWebUrl(input_path[r])
         /\ urlparse(input_path[r]).scheme \notin {<<"http">>, <<"https">>}
         /\ ~(StartsWith(input_path[r], <<"10.">>) /\ Contains(input_path[r], <<"/">>))
         /\ ~IsDigit(input_path[r]))
        => response[r] = MessagePage(LocalPathMessage)

\* the text has the shape of a DOI or of a PMID
BibliographicShape(text) ==
    \/ IsDigit(text)
    \/ StartsWith(text, <<"10.">>) /\ Contains(text, <<"/">>)

\* C9: an input without "github.com" that does not parse with scheme http or
\* https and has the shape of a DOI or PMID never reaches the safety checker,
\* and once past the call site it has invoked the resolver, once, with the
\* input as its argument.
C9_BibliographicBypassesSafetyCheck ==
    \A r \in Requests :
        (/\ pc[r] # "idle"
         /\ ~Contains(input_path[r], <<"github.com">>)
         /\ urlparse(input_path[r]).scheme \notin {<<"http">>, <<"https">>}
         /\ BibliographicShape(input_path[r]))
        => /\ safe_calls[r] = 0
           /\ pc[r] # "safety"
           /\ ~urlparse(input_path[r]).raised
           /\ pc[r] \in AfterCall =>
                 /\ Len(calls[r]) = 1
                 /\ calls[r][1].backend = "process_doi_or_pmid"
                 /\ calls[r][1].arg = input_path[r]

\* "10.0.0.1/123", which is also the text of a private address, went to the
\* resolver and its artifacts were written
C9_Witness ==
    /\ input_path["r1"] = <<"10.", "0.0.1", "/", "123">>
    /\ pc["r1"] = "done"
    /\ calls["r1"] = <<Call("process_doi_or_pmid", <<"10.", "0.0.1", "/", "123">>, TRUE)>>
    /\ OutC \in wrote["r1"]

\* C10: a request invokes at most one backend, at most once; one that got
\* past classification and the safety check has invoked exactly one; when
\* the invocation failed the request has ended with "Error: " and the
\* backend's message and has written no file; a file is written only by a
\* request whose backend has returned.
C10_OneBackendCallNoRetry ==
    \A r \in Requests :
        /\ Len(calls[r]) <= 1
        /\ pc[r] \in AfterCall \ {"done"} => Len(calls[r]) = 1
        /\ (pc[r] = "done" /\ Len(calls[r]) = 0) =>
              \/ response[r] \in {MessagePage(SecurityMessage),
                                   MessagePage(LocalPathMessage)}
              \/ urlparse(input_path[r]).raised
        /\ \A i \in 1..Len(calls[r]) :
              ~calls[r][i].returned =>
                  /\ pc[r] = "done"
                  /\ \E e \in BackendErrors : response[r] = ErrorPage(e)
                  /\ wrote[r] = {}
                  /\ \A f \in Artifacts : ~fs[f].exists
        /\ wrote[r] # {} =>
              /\ Len(calls[r]) = 1
              /\ calls[r][1].returned
              /\ final_output[r] \in Contents

\* a dispatched request whose backend raised
C10_Witness ==
    /\ pc["r1"] = "done"
    /\ Len(calls["r1"]) = 1
    /\ ~calls["r1"][1].returned
    /\ calls["r1"][1].backend = "crawl_and_extract_text"

---------------------------------------------------------------------------
(* Properties of _is_safe_url.                                             *)

\* the hosts of the generated URLs that the reference predicate denies
DeniedHostTexts == {<<"localhost">>, <<"LOCALHOST">>, <<"metadata.google.internal">>}
\* 127.0.0.0/8, 10.0.0.0/8, 169.254.0.0/16, 192.168.0.0/16, 172.16.0.0/12,
\* 240.0.0.0/4, ::1 and fe80::/10
DeniedLiterals == {<<"127.0.0.1">>, <<"10.", "0.0.1">>, <<"169.254.169.254">>,
                   <<"192.168.1.1">>, <<"172.16.0.1">>, <<"240.0.0.1">>,
                   <<"[", "::1", "]">>, <<"[", "fe80::1", "]">>}
UnparsableHosts == {<<"[", "::1">>}

\* the reference predicate, on the parts a URL was built from: a URL has a
\* hostname when a non-empty host follows "//"
SafeExpected(slashes, host) ==
    /\ slashes = <<"/", "/">>
    /\ host # <<>>
    /\ host \notin UnparsableHosts
    /\ host \notin DeniedHostTexts
    /\ host \notin DeniedLiterals

\* C5: _is_safe_url never raises and returns the reference predicate: false
\* without a hostname, for "localhost" and the metadata hostname under any
\* scheme, for an IP literal in a private, loopback, link-local or reserved
\* range and on a parsing failure; true for every other hostname.
C5_IsSafeEqualsReference ==
    safe.checked =>
        /\ ~safe.result.raised
        /\ safe.result.value = SafeExpected(safe.slashes, safe.host)

\* a link-local literal under a scheme other than http was denied
C5_Witness ==
    /\ safe.checked
    /\ safe.scheme = <<"ftp", ":">>
    /\ safe.slashes = <<"/", "/">>
    /\ safe.host = <<"169.254.169.254">>
    /\ ~safe.result.value

---------------------------------------------------------------------------
(* Properties of two concurrent requests.                                  *)

Last(seq) == seq[Len(seq)]

\* both requests went through lines 129-148
BothCompleted ==
    \A r \in Requests : pc[r] = "done" /\ {OutU, OutC} \subseteq wrote[r]

\* C8 as stated: when both requests have completed, both files hold the
\* content of the request that finished writing last, and the compressed
\* file is the normalization of the uncompressed file on disk.
C8_LastWriterWinsBothFiles ==
    BothCompleted =>
        LET w == Last(flushed[OutC])
        IN /\ fs[OutU].data = final_output[w]
           /\ fs[OutC].data = Normalize(final_output[w])
           /\ fs[OutC].data = Normalize(fs[OutU].data)

\* C8 as amended: when both requests have completed and were never inside
\* lines 130-134 together, both files hold the content of the request that
\* finished writing last, and the compressed file is the normalization of
\* the uncompressed file on disk.
C8_LastWriterWinsWhenNotOverlapping ==
    (BothCompleted /\ ~overlapped) =>
        LET w == Last(flushed[OutC])
        IN /\ fs[OutU].data = final_output[w]
           /\ fs[OutC].data = Normalize(final_output[w])
           /\ fs[OutC].data = Normalize(fs[OutU].data)

\* the second request wrote a shorter text over the longer text of the first
C8_Witness ==
    /\ BothCompleted
    /\ ~overlapped
    /\ flushed[OutU] = <<"r1", "r2">>
    /\ final_output["r1"] = <<"B", "B">>
    /\ final_output["r2"] = <<"A">>
    /\ fs[OutU].data = <<"A">>

---------------------------------------------------------------------------
(* Properties of download().                                               *)

TwoNames == {<<"uncompressed_output.txt">>, <<"compressed_output.txt">>}

HasSeparator(name) == \E i \in 1..Len(name) : name[i] = "/"

\* the name with its directory components stripped
RECURSIVE LastComponent(_)
LastComponent(name) ==
    IF HasSeparator(name) THEN LastComponent(Tail(name)) ELSE name

\* the file called n directly inside the output directory
ArtifactFile(n) == <<<<"app">>, n>>

\* this step is the handling of a /download request
Downloaded == ~dl.asked /\ dl'.asked

\* C2: every step leaves the allow-list at the two artifact names; a
\* download touches no file other than the two artifacts directly inside
\* the output directory, and one that returns bytes returns the content of
\* the artifact whose name is the last component of the requested name.
C2_DownloadOnlyFromAllowList ==
    [][ /\ ALLOWED_DOWNLOAD_FILES = TwoNames
        /\ ALLOWED_DOWNLOAD_FILES' = TwoNames
        /\ Downloaded =>
              /\ \A i \in 1..Len(dl'.accessed) :
                    \E n \in TwoNames : dl'.accessed[i] = ArtifactFile(n)
              /\ dl'.status = 200 =>
                    \E n \in TwoNames :
                        /\ n = LastComponent(dl'.filename)
                        /\ fs[ArtifactFile(n)].exists
                        /\ dl'.body = fs[ArtifactFile(n)].data
      ]_vars

\* a name with a directory in front was answered with the artifact, not
\* with the file of that name inside the directory
C2_Witness ==
    /\ dl.asked
    /\ dl.filename = <<"sub", "/", "uncompressed_output.txt">>
    /\ dl.status = 200
    /\ dl.body \in Contents
    /\ dl.body # fs[SubU].data

\* C3 as stated: a name, empty and missing ones included, whose last
\* component is not allow-listed is answered 403 without file access, and
\* 404 is answered only for an allow-listed name.
C3_ForbiddenUnlessAllowListed ==
    dl.asked =>
        /\ (dl.missing \/ LastComponent(dl.filename) \notin TwoNames) =>
              dl.status = 403 /\ dl.accessed = <<>>
        /\ dl.status = 404 =>
              ~dl.missing /\ LastComponent(dl.filename) \in TwoNames

\* C3 as amended: a non-empty name whose last component is not allow-listed
\* is answered 403 without file access; a missing or empty name is answered
\* 404 without file access; any other 404 is for an allow-listed name whose
\* file does not exist in the output directory.
C3_ForbiddenUnlessAllowListedOrEmpty ==
    [][ Downloaded =>
          /\ (~dl'.missing /\ dl'.filename # <<>>
                 /\ LastComponent(dl'.filename) \notin TwoNames) =>
                dl'.status = 403 /\ dl'.accessed = <<>>
          /\ (dl'.missing \/ dl'.filename = <<>>) =>
                dl'.status = 404 /\ dl'.accessed = <<>>
          /\ (dl'.status = 404 /\ ~dl'.missing /\ dl'.filename # <<>>) =>
                /\ LastComponent(dl'.filename) \in TwoNames
                /\ ~fs[ArtifactFile(LastComponent(dl'.filename))].exists
      ]_vars

\* the crawl's sidecar file exists in the output directory and is refused
C3_Witness ==
    /\ dl.asked
    /\ dl.filename = <<"processed_urls.txt">>
    /\ fs[OutUrls].exists
    /\ dl.status = 403

\* C4 as stated: a name that contains a path separator is answered 403
\* without file access.
C4_SeparatorIsForbidden ==
    (dl.asked /\ HasSeparator(dl.filename)) =>
        dl.status = 403 /\ dl.accessed = <<>>

\* C4 as amended: a name that contains a path separator is answered 403
\* without file access when its last component is not allow-listed; when it
\* is, the directory part is dropped and the answer is that of the bare
\* name: only that artifact in the output directory is looked at, and the
\* answer is its bytes or 404.
C4_SeparatorIsStripped ==
    (dl.asked /\ HasSeparator(dl.filename)) =>
        IF LastComponent(dl.filename) \in TwoNames
        THEN /\ dl.status \in {200, 404}
             /\ dl.accessed # <<>>
             /\ \A i \in 1..Len(dl.accessed) :
                   dl.accessed[i] = ArtifactFile(LastComponent(dl.filename))
        ELSE dl.status = 403 /\ dl.accessed = <<>>

\* a traversal towards /etc/passwd was refused while the artifacts existed
C4_Witness ==
    /\ dl.asked
    /\ dl.filename = <<"..", "/", "etc", "/", "passwd">>
    /\ dl.status = 403
    /\ dl.accessed = <<>>
    /\ fs[OutU].exists

=============================================================================
